---- MODULE Spec2Model ----
(***************************************************************************)
(* Model of the ml-service recommendation engine:                          *)
(*   src/services/recommendation_service.py  (RecommendationService)       *)
(*   src/services/interaction_service.py     (InteractionService)          *)
(*   src/algorithms/collaborative_filtering.py                             *)
(*   src/algorithms/content_based_filtering.py                             *)
(*                                                                         *)
(* Real numbers are fixed-point integers in units of 1/Scale.  Times are   *)
(* whole hours.  Lists whose order the database leaves unspecified are     *)
(* chosen nondeterministically.                                            *)
(***************************************************************************)
EXTENDS Integers, Sequences, FiniteSets, Bags, TLC

\* ------------------------------------------------------------------------
\* Bounds of the model
\* ------------------------------------------------------------------------
MaxClock == 2
MaxEvents == 3
MaxLimit == 2
MaxFaults == 1
MaxCopies == 1
MaxRows == 4
Scale == 100

\* ------------------------------------------------------------------------
\* Program constants and configuration
\* ------------------------------------------------------------------------
\* RETRAIN_INTERVAL_HOURS and MIN_NEW_INTERACTIONS are read from the
\* environment; the model runs the service configured with small values.
retrain_interval_hours == 2
min_new_interactions == 2
\* CollaborativeFiltering(min_interactions=...): the service builds the
\* filter with the default 5; the model scales the threshold down to the
\* value the unit tests construct it with.
min_interactions == 2
n_components == 50
NEIGHBOURS == 10

\* Python's None as an argument; an optional value in the state is a sequence
\* of length 0 (None) or 1.
None == "None"
Absent == <<>>
Some(x) == <<x>>

\* Ids in their sort order (pandas sorts the pivot's index and columns).
UserOrder == <<"u1", "u2">>
ProductOrder == <<"p1", "p2", "p3", "p4">>
Users == {UserOrder[i] : i \in 1..Len(UserOrder)}
Products == {ProductOrder[i] : i \in 1..Len(ProductOrder)}
\* A user id that bson.ObjectId() rejects (not a 24-digit hex string).
BadId == "not-an-objectid"
UserIds == Users \cup {BadId}

ValidTypes == {"view", "cart_add", "purchase"}
\* interaction types a client may send; "click" is not a recognised type
TypeInputs == ValidTypes \cup {"click"}

interaction_weights == [t \in ValidTypes |->
    CASE t = "view" -> 1 [] t = "cart_add" -> 2 [] t = "purchase" -> 3]

\* The catalog documents the products collection can hold: name, description
\* and tags are blank, so combined_text is the category word alone.  p4 is a
\* second listing of p1: same category, same price.
ProductData == [p \in Products |->
    CASE p = "p1" -> [name |-> "", category |-> "electronics", price |-> 30, images |-> <<>>]
      [] p = "p2" -> [name |-> "", category |-> "electronics", price |-> 25, images |-> <<>>]
      [] p = "p3" -> [name |-> "", category |-> "clothing", price |-> 0, images |-> <<>>]
      [] p = "p4" -> [name |-> "", category |-> "electronics", price |-> 30, images |-> <<>>]]

\* ------------------------------------------------------------------------
\* Arithmetic helpers
\* ------------------------------------------------------------------------
RECURSIVE SumOver(_, _)
SumOver(S, f) ==
    IF S = {} THEN 0
    ELSE LET x == CHOOSE y \in S : TRUE IN f[x] + SumOver(S \ {x}, f)

RECURSIVE SqrtSearch(_, _, _)
SqrtSearch(x, lo, hi) ==
    IF lo >= hi THEN lo
    ELSE LET mid == (lo + hi + 1) \div 2
         IN IF mid * mid <= x THEN SqrtSearch(x, mid, hi) ELSE SqrtSearch(x, lo, mid - 1)

\* floor(sqrt(x)) for 0 <= x < 2^30
ISqrt(x) == SqrtSearch(x, 0, 32767)

\* division truncating toward zero, b > 0
Quot(a, b) == IF a < 0 THEN -((-a) \div b) ELSE a \div b

\* vectors are sequences of fixed-point numbers
RECURSIVE SumTo(_, _)
SumTo(v, n) == IF n = 0 THEN 0 ELSE v[n] + SumTo(v, n - 1)
Sum(v) == SumTo(v, Len(v))
Dot(a, b) == Sum([k \in 1..Len(a) |-> a[k] * b[k]])

\* sklearn.preprocessing.normalize: rows of norm 0 are left as they are.
Normalize(v) ==
    LET n == ISqrt(Dot(v, v))
    IN IF n = 0 THEN v ELSE [k \in 1..Len(v) |-> Quot(v[k] * Scale, n)]

\* sklearn cosine_similarity: the dot products of the normalized rows
\* (fixed point, 1.0 = Scale)
CosineRows(m) ==
    LET nm == [i \in DOMAIN m |-> Normalize(m[i])]
    IN [i \in DOMAIN m |-> [j \in DOMAIN m |-> Quot(Dot(nm[i], nm[j]), Scale)]]
\* cosine_similarity([a], m)[0]
CosineTo(a, m) ==
    LET an == Normalize(a)
    IN [i \in DOMAIN m |-> Quot(Dot(an, Normalize(m[i])), Scale)]

\* np.argsort(vals)[::-1] for a function vals over 1..n: ascending stable
\* sort, reversed: descending value, equal values by descending index.
Before(vals, i, j) == vals[i] > vals[j] \/ (vals[i] = vals[j] /\ i > j)
ArgsortDesc(vals) ==
    LET n == Cardinality(DOMAIN vals)
        Rank(i) == Cardinality({j \in DOMAIN vals : Before(vals, j, i)}) + 1
    IN [r \in 1..n |-> CHOOSE i \in DOMAIN vals : Rank(i) = r]

\* A slice that is one entry too long.
TakeOneMore(s, n) == SubSeq(s, 1, IF n + 1 < Len(s) THEN n + 1 ELSE Len(s))

Take(s, n) == SubSeq(s, 1, IF n < Len(s) THEN n ELSE Len(s))
Drop1(s) == SubSeq(s, 2, Len(s))
Range(s) == {s[i] : i \in DOMAIN s}
IndexOf(s, x) == CHOOSE i \in DOMAIN s : s[i] = x
SortedIds(order, S) == SelectSeq(order, LAMBDA x : x \in S)

\* ------------------------------------------------------------------------
\* Interaction store (the userinteractions collection): a bag of events
\* [userId, productId, interactionType, timestamp]
\* ------------------------------------------------------------------------
EventsOf(st) == BagToSet(st)
CountWhere(st, P(_)) ==
    SumOver({e \in EventsOf(st) : P(e)}, [e \in EventsOf(st) |-> CopiesIn(e, st)])

\* InteractionService.get_user_product_matrix: one row per (user, product)
\* pair; the order of the rows is left to the database.
get_user_product_matrix(st) ==
    {[userId |-> pr[1], productId |-> pr[2],
      interactions |-> CountWhere(st, LAMBDA e : e.userId = pr[1] /\ e.productId = pr[2]),
      interactionTypes |-> {e.interactionType : e \in
          {x \in EventsOf(st) : x.userId = pr[1] /\ x.productId = pr[2]}}]
     : pr \in {<<e.userId, e.productId>> : e \in EventsOf(st)}}

\* InteractionService.get_user_interactions: the user's events, as a bag of
\* [productId, interactionType] (the only fields the callers read).
get_user_interactions(st, user_id) ==
    [pt \in {[productId |-> e.productId, interactionType |-> e.interactionType]
              : e \in {x \in EventsOf(st) : x.userId = user_id}} |->
        CountWhere(st, LAMBDA e : e.userId = user_id /\ e.productId = pt.productId
                                  /\ e.interactionType = pt.interactionType)]

\* ------------------------------------------------------------------------
\* Collaborative filter
\* ------------------------------------------------------------------------
\* The fields of a CollaborativeFiltering object.  user_ids and item_ids are
\* reverse_user_map and reverse_item_map (index -> id); user_index_map and
\* item_index_map are their inverses.
CfInit == [user_item_matrix |-> Absent, user_similarity_matrix |-> Absent,
           user_ids |-> <<>>, item_ids |-> <<>>, is_trained |-> FALSE]

\* prepare_data, lines 62-71: the score column.  The loop runs over the
\* interaction types of the FIRST row only (df['interactionTypes'].iloc[0]).
RowScore(row, first) ==
    SumOver((first.interactionTypes \cap ValidTypes) \cap row.interactionTypes,
            interaction_weights)

\* prepare_data, lines 49-71: the rows with their score column
ScoredRows(rows, first) ==
    {[userId |-> r.userId, productId |-> r.productId,
      interactions |-> r.interactions, score |-> RowScore(r, first)] : r \in rows}

\* A filter on the users' totals alone.
KeepValidUsers(scored) ==
    LET user_counts(u) == SumOver({r \in scored : r.userId = u},
                                  [r \in scored |-> r.score])
    IN {r \in scored : user_counts(r.userId) >= min_interactions}

\* prepare_data, lines 73-88: rows of users and items whose summed score
\* reaches min_interactions.
KeepValid(scored) ==
    LET user_counts(u) == SumOver({r \in scored : r.userId = u},
                                  [r \in scored |-> r.score])
        item_counts(p) == SumOver({r \in scored : r.productId = p},
                                  [r \in scored |-> r.score])
    IN {r \in scored : /\ user_counts(r.userId) >= min_interactions
                       /\ item_counts(r.productId) >= min_interactions}

prepare_data(rows, first) ==
    IF rows = {} THEN {} ELSE KeepValid(ScoredRows(rows, first))

\* create_user_item_matrix: the pivot table and the index maps built from it
PivotUsers(df) == SortedIds(UserOrder, {r.userId : r \in df})
PivotItems(df) == SortedIds(ProductOrder, {r.productId : r \in df})
PivotCell(df, u, p) ==
    IF \E r \in df : r.userId = u /\ r.productId = p
    THEN (CHOOSE r \in df : r.userId = u /\ r.productId = p).score
    ELSE 0
PivotCells(df, us, it) ==
    [i \in 1..Len(us) |-> [j \in 1..Len(it) |-> PivotCell(df, us[i], it[j])]]
PivotMatrix(df) == PivotCells(df, PivotUsers(df), PivotItems(df))

\* cosine_similarity(matrix): all pairs of rows
SimilarityMatrix(m) ==
    CosineRows([i \in DOMAIN m |-> [k \in DOMAIN m[i] |-> m[i][k] * Scale]])

CfFaults == {"cf_prepare", "cf_matrix", "cf_similarity"}

\* CollaborativeFiltering.train, the except handler (lines 171-174): the
\* flag is cleared, the fields already assigned stay, the error is raised
\* again.
CfFailedKeepsFlag(cf) ==
    [state |-> cf, raised |-> TRUE]

CfFailed(cf) ==
    [state |-> [cf EXCEPT !.is_trained = FALSE], raised |-> TRUE]

\* CollaborativeFiltering.train(interactions).  `first` is the row the
\* database returned first; `faults` names the steps at which an unexpected
\* exception is raised.  Result: the object's fields afterwards and whether
\* the call raised.
CfAssigned(cf, df) ==
    [cf EXCEPT !.user_ids = PivotUsers(df), !.item_ids = PivotItems(df),
               !.user_item_matrix = PivotMatrix(df)]
CfCompleted(withMatrix) ==
    [withMatrix EXCEPT
        !.user_similarity_matrix = SimilarityMatrix(withMatrix.user_item_matrix),
        !.is_trained = TRUE]
\* A train that returns on empty data without touching the flag.
CfTrainOnKeepsFlag(cf, df, faults) ==
    IF "cf_prepare" \in faults
    THEN CfFailed(cf)
    ELSE IF df = {}
    THEN [state |-> cf, raised |-> FALSE]
    ELSE IF "cf_matrix" \in faults
    THEN CfFailed(cf)
    ELSE IF "cf_similarity" \in faults
    THEN CfFailed(CfAssigned(cf, df))
    ELSE [state |-> CfCompleted(CfAssigned(cf, df)), raised |-> FALSE]

CfTrainOn(cf, df, faults) ==
    IF "cf_prepare" \in faults
    THEN CfFailed(cf)
    ELSE IF df = {}
    THEN [state |-> [cf EXCEPT !.is_trained = FALSE], raised |-> FALSE]
    ELSE IF "cf_matrix" \in faults
    THEN CfFailed(cf)
    ELSE IF "cf_similarity" \in faults
    THEN CfFailed(CfAssigned(cf, df))
    ELSE [state |-> CfCompleted(CfAssigned(cf, df)), raised |-> FALSE]
CfTrain(cf, rows, first, faults) == CfTrainOn(cf, prepare_data(rows, first), faults)

\* CollaborativeFiltering.get_user_recommendations(user_id, n): a sequence
\* of [productId, score].  An exception inside (an index outside a matrix)
\* is caught and gives [].
CfFieldsFit(cf) ==
    /\ cf.user_item_matrix # Absent /\ cf.user_similarity_matrix # Absent
    /\ DOMAIN cf.user_item_matrix = DOMAIN cf.user_ids
    /\ DOMAIN cf.user_similarity_matrix = DOMAIN cf.user_ids
    /\ \A i \in DOMAIN cf.user_ids : DOMAIN cf.user_item_matrix[i] = DOMAIN cf.item_ids

SimilarUsers(user_similarities) ==
    Take(Drop1(ArgsortDesc(user_similarities)), NEIGHBOURS)
ItemScores(cf, user_idx, user_similarities, similar_users_idx) ==
    [j \in DOMAIN cf.item_ids |->
        IF cf.user_item_matrix[user_idx][j] > 0 THEN 0
        ELSE Sum([k \in DOMAIN similar_users_idx |->
                IF user_similarities[similar_users_idx[k]] > 0
                THEN user_similarities[similar_users_idx[k]]
                       * cf.user_item_matrix[similar_users_idx[k]][j]
                ELSE 0])]
UserScores(cf, user_idx) ==
    ItemScores(cf, user_idx, cf.user_similarity_matrix[user_idx],
               SimilarUsers(cf.user_similarity_matrix[user_idx]))
\* the n best of scores, those above 0, as [productId, score]
Pairs(ids, scores, kept) ==
    [k \in DOMAIN kept |-> [productId |-> ids[kept[k]], score |-> scores[kept[k]]]]
\* The n best without the test on the score.
TopItemsAnyScore(ids, scores, n) ==
    Pairs(ids, scores, Take(ArgsortDesc(scores), n))
TopItems(ids, scores, n) ==
    Pairs(ids, scores,
          SelectSeq(Take(ArgsortDesc(scores), n), LAMBDA j : scores[j] > 0))
\* A query that does not look at the flag.
GetUserRecommendationsFlagIgnored(cf, user_id, n) ==
    IF user_id \notin Range(cf.user_ids) THEN <<>>
    ELSE IF ~CfFieldsFit(cf) THEN <<>>
    ELSE TopItems(cf.item_ids, UserScores(cf, IndexOf(cf.user_ids, user_id)), n)

get_user_recommendations(cf, user_id, n) ==
    IF ~cf.is_trained THEN <<>>
    ELSE IF user_id \notin Range(cf.user_ids) THEN <<>>
    ELSE IF ~CfFieldsFit(cf) THEN <<>>
    ELSE TopItems(cf.item_ids, UserScores(cf, IndexOf(cf.user_ids, user_id)), n)

\* CollaborativeFiltering.get_similar_users(user_id, n_users): a sequence of
\* [userId, score], the user's own row of the sort left out by position.  An
\* exception inside (no similarity matrix, an index outside it) is caught
\* and gives [].
SimilarUserPairs(ids, user_similarities, similar_users_idx) ==
    [k \in DOMAIN similar_users_idx |->
        [userId |-> ids[similar_users_idx[k]],
         score |-> user_similarities[similar_users_idx[k]]]]
get_similar_users(cf, user_id, n_users) ==
    IF ~cf.is_trained \/ user_id \notin Range(cf.user_ids) THEN <<>>
    ELSE IF \/ cf.user_similarity_matrix = Absent
            \/ DOMAIN cf.user_similarity_matrix # DOMAIN cf.user_ids
    THEN <<>>
    ELSE SimilarUserPairs(cf.user_ids,
             cf.user_similarity_matrix[IndexOf(cf.user_ids, user_id)],
             Take(Drop1(ArgsortDesc(
                 cf.user_similarity_matrix[IndexOf(cf.user_ids, user_id)])), n_users))

\* ------------------------------------------------------------------------
\* Content filter
\* ------------------------------------------------------------------------
\* The fields of a ContentBasedFiltering object.  product_ids is
\* reverse_product_map (index -> id); product_index_map is its inverse.
CbInit == [product_features |-> Absent, product_similarity_matrix |-> Absent,
           product_ids |-> <<>>, is_trained |-> FALSE]

\* prepare_product_data, lines 94-98: pd.cut(price, bins=[0, 25, 50, 100,
\* 250, inf]) with its default right-closed intervals; a price outside
\* (0, inf] has no band and .astype(str) turns it into 'nan'.
price_category(price) ==
    IF price <= 0 THEN "nan"
    ELSE IF price <= 25 THEN "budget"
    ELSE IF price <= 50 THEN "low"
    ELSE IF price <= 100 THEN "medium"
    ELSE IF price <= 250 THEN "high"
    ELSE "premium"

\* The columns of the feature matrix: the TF-IDF block (one term per
\* category word, the only text of these products), the scaled price, the
\* one-hot category and the one-hot price band.
CategoryOrder == <<"clothing", "electronics">>
BandOrder == <<"budget", "high", "low", "medium", "nan", "premium">>
FeatureKeys ==
    [i \in 1..Len(CategoryOrder) |-> <<"tfidf", CategoryOrder[i]>>]
    \o <<<<"price", "">>>>
    \o [i \in 1..Len(CategoryOrder) |-> <<"category", CategoryOrder[i]>>]
    \o [i \in 1..Len(BandOrder) |-> <<"price_cat", BandOrder[i]>>]

\* StandardScaler.fit_transform on the price column of the products ps:
\* (x - mean) / std, the std of a constant column being replaced by 1.
ScaledPrice(ps, p) ==
    LET n == Cardinality(ps)
        S == SumOver(ps, [q \in ps |-> ProductData[q].price])
        d(q) == n * ProductData[q].price - S
        Q == SumOver(ps, [q \in ps |-> d(q) * d(q)])
    IN IF Q = 0 THEN 0
       ELSE LET mag == ISqrt((d(p) * d(p) * n * Scale * Scale) \div Q)
            IN IF d(p) < 0 THEN -mag ELSE mag

\* extract_features: one row of the feature matrix
FeatureRow(ps, p) ==
    [i \in 1..Len(FeatureKeys) |->
        LET k == FeatureKeys[i]
        IN CASE k[1] = "tfidf" -> IF k[2] = ProductData[p].category THEN Scale ELSE 0
             [] k[1] = "category" -> IF k[2] = ProductData[p].category THEN Scale ELSE 0
             [] k[1] = "price" -> ScaledPrice(ps, p)
             [] k[1] = "price_cat" ->
                   IF k[2] = price_category(ProductData[p].price) THEN Scale ELSE 0]

extract_features(ids) ==
    [i \in DOMAIN ids |-> FeatureRow(Range(ids), ids[i])]

ProductSimilarity(features) == CosineRows(features)

CbFaults == {"cb_prepare", "cb_features", "cb_similarity"}

\* ContentBasedFiltering.train, the except handler (lines 194-197)
CbFailedKeepsAll(cb, before) ==
    [state |-> before, raised |-> TRUE]

CbFailed(cb, before) ==
    [state |-> [cb EXCEPT !.is_trained = FALSE], raised |-> TRUE]

\* ContentBasedFiltering.train(products).  `ids` are the _id of the product
\* documents in the order the catalog returned them.
CbAssigned(cb, ids) ==
    [cb EXCEPT !.product_ids = ids, !.product_features = extract_features(ids)]
CbCompleted(withFeatures) ==
    [withFeatures EXCEPT
        !.product_similarity_matrix = ProductSimilarity(withFeatures.product_features),
        !.is_trained = TRUE]
CbTrain(cb, ids, faults) ==
    IF "cb_prepare" \in faults
    THEN CbFailed(cb, cb)
    ELSE IF ids = <<>>
    THEN [state |-> [cb EXCEPT !.is_trained = FALSE], raised |-> FALSE]
    ELSE IF "cb_features" \in faults
    THEN CbFailed([cb EXCEPT !.product_ids = ids], cb)
    ELSE IF "cb_similarity" \in faults
    THEN CbFailed(CbAssigned(cb, ids), cb)
    ELSE [state |-> CbCompleted(CbAssigned(cb, ids)), raised |-> FALSE]

CbFieldsFit(cb) ==
    /\ cb.product_features # Absent /\ cb.product_similarity_matrix # Absent
    /\ DOMAIN cb.product_features = DOMAIN cb.product_ids
    /\ DOMAIN cb.product_similarity_matrix = DOMAIN cb.product_ids

\* ContentBasedFiltering.get_similar_products(product_id, n)
SimilarProducts(ids, similarity_scores, similar_products_idx) ==
    [k \in DOMAIN similar_products_idx |->
        [productId |-> ids[similar_products_idx[k]],
         score |-> similarity_scores[similar_products_idx[k]]]]
SimilarTo(cb, product_idx, n) ==
    SimilarProducts(cb.product_ids, cb.product_similarity_matrix[product_idx],
        Take(Drop1(ArgsortDesc(cb.product_similarity_matrix[product_idx])), n))
get_similar_products(cb, product_id, n) ==
    IF ~cb.is_trained THEN <<>>
    ELSE IF product_id \notin Range(cb.product_ids) THEN <<>>
    ELSE IF ~CbFieldsFit(cb) THEN <<>>
    ELSE SimilarTo(cb, IndexOf(cb.product_ids, product_id), n)

\* ContentBasedFiltering.get_user_content_recommendations(user_interactions,
\* n); user_interactions is the bag get_user_interactions returns.
InteractionWeight(pt) ==
    IF pt.interactionType \in ValidTypes
    THEN interaction_weights[pt.interactionType] ELSE 1
KnownInteractions(cb, user_interactions) ==
    {pt \in BagToSet(user_interactions) : pt.productId \in Range(cb.product_ids)}
TotalWeight(user_interactions, known) ==
    SumOver(known, [pt \in known |->
        CopiesIn(pt, user_interactions) * InteractionWeight(pt)])
UserProfile(cb, user_interactions, known, total_weight) ==
    [k \in 1..Len(FeatureKeys) |->
        Quot(SumOver(known, [pt \in known |->
                 CopiesIn(pt, user_interactions) * InteractionWeight(pt)
                   * cb.product_features[IndexOf(cb.product_ids, pt.productId)][k]]),
             total_weight)]
\* Scores that keep the products of the interaction list.
ProductScoresKeepKnown(cb, known, similarities) ==
    [i \in DOMAIN cb.product_ids |-> similarities[i]]

ProductScores(cb, known, similarities) ==
    [i \in DOMAIN cb.product_ids |->
        IF cb.product_ids[i] \in {pt.productId : pt \in known} THEN 0
        ELSE similarities[i]]
ContentScores(cb, user_interactions, known, total_weight) ==
    ProductScores(cb, known,
        CosineTo(UserProfile(cb, user_interactions, known, total_weight),
                 cb.product_features))
ContentWeighted(cb, user_interactions, n, known, total_weight) ==
    IF total_weight = 0 THEN <<>>
    ELSE TopItems(cb.product_ids,
                  ContentScores(cb, user_interactions, known, total_weight), n)
ContentKnown(cb, user_interactions, n, known) ==
    ContentWeighted(cb, user_interactions, n, known,
                    TotalWeight(user_interactions, known))
get_user_content_recommendations(cb, user_interactions, n) ==
    IF ~cb.is_trained \/ user_interactions = EmptyBag THEN <<>>
    ELSE IF ~CbFieldsFit(cb) THEN <<>>
    ELSE ContentKnown(cb, user_interactions, n,
                      KnownInteractions(cb, user_interactions))

\* ------------------------------------------------------------------------
\* Hybrid recommendation engine (RecommendationService)
\* ------------------------------------------------------------------------
\* Points at which a database or file operation raises during a request.
\*   count      userinteractions.count_documents in _should_retrain
\*   recount    the same call when train_models repeats the check inside
\*              get_recommendations
\*   aggregate  get_user_product_matrix (training data)
\*   products   products.find({}) (training data)
\*   save_*     the joblib.dump of that file in _save_models
\*   history    get_user_interactions
\*   popular    the aggregation of _get_popular_products
\*   enrich     products.find in _enrich_recommendations
GateFaults == {"count", "recount"}
DataFaults == {"aggregate", "products"}
SaveFaults == {"save_collaborative", "save_content", "save_metadata"}
TrainFaults == DataFaults \cup CfFaults \cup CbFaults
AnswerFaults == {"history", "popular", "enrich"}
FaultSets(points) == {F \in SUBSET points : Cardinality(F) <= MaxFaults}

\* The model directory: the three files _save_models writes.
SavedInit == [collaborative_model |-> Absent, content_model |-> Absent,
              training_metadata |-> Absent]

NewInteractions(st, ltt) == CountWhere(st, LAMBDA e : e.timestamp > ltt[1])

\* A freshness check that takes either threshold alone as enough.
ShouldRetrainEither(ltt, now, st, countFails) ==
    IF ltt = Absent THEN TRUE
    ELSE \/ now - ltt[1] >= retrain_interval_hours
         \/ ~countFails /\ NewInteractions(st, ltt) >= min_new_interactions

\* A freshness check that never holds training back.
ShouldRetrainAlways(ltt, now, st, countFails) == TRUE

\* A freshness check without the test on the time passed.
ShouldRetrainOnVolume(ltt, now, st, countFails) ==
    IF ltt # Absent /\ countFails THEN FALSE
    ELSE IF ltt # Absent /\ NewInteractions(st, ltt) < min_new_interactions THEN FALSE
    ELSE TRUE

\* _should_retrain: any exception inside is caught and gives False.
ShouldRetrain(ltt, now, st, countFails) ==
    IF ltt # Absent /\ now - ltt[1] < retrain_interval_hours THEN FALSE
    ELSE IF ltt # Absent /\ countFails THEN FALSE
    ELSE IF ltt # Absent /\ NewInteractions(st, ltt) < min_new_interactions THEN FALSE
    ELSE TRUE

\* _save_models: three dumps in order; the first that raises ends the save.
SaveModels(sv, cfS, cbS, ltt, F) ==
    IF "save_collaborative" \in F THEN sv
    ELSE IF "save_content" \in F THEN [sv EXCEPT !.collaborative_model = Some(cfS)]
    ELSE IF "save_metadata" \in F
    THEN [sv EXCEPT !.collaborative_model = Some(cfS), !.content_model = Some(cbS)]
    ELSE [collaborative_model |-> Some(cfS), content_model |-> Some(cbS),
          training_metadata |-> Some([last_training_time |-> ltt,
                                      retrain_interval_hours |-> retrain_interval_hours])]

\* The rows the database may return first for the training data: one row
\* for each set of interaction types, the only field of the first row that
\* prepare_data reads.
FirstRows(st) ==
    IF st = EmptyBag THEN {None}
    ELSE LET rows == get_user_product_matrix(st)
         IN {r \in rows :
               r = CHOOSE q \in rows : q.interactionTypes = r.interactionTypes}

\* train_models, line 173: the content filter is trained when the product
\* fetch gave something, whatever the collaborative training did.
CbAttemptedUnlessCfRaised(products, cfRun) == products # <<>> /\ ~cfRun.raised

\* The content filter trained on whatever the fetch gave, nothing included.
CbAttemptedAlways(products, cfRun) == TRUE

CbAttempted(products, cfRun) == products # <<>>

\* train_models, line 183: the training time is set to the run's start,
\* whatever was trained.
TrainingTimeIfTrained(ltt, start_time, trained) ==
    IF trained = <<>> THEN ltt ELSE Some(start_time)

TrainingTime(ltt, start_time, trained) == Some(start_time)

\* train_models(force_retrain) on the engine state s = [cf, cb,
\* last_training_time, saved].  gateFails: count_documents raises in its
\* freshness check.  Result: the state afterwards, the returned dict and a
\* log of which train calls were made and which raised.
TrainModels(s, now, st, cat, force, gateFails, F, first) ==
    IF ~force /\ ~ShouldRetrain(s.last_training_time, now, st, gateFails)
    THEN [state |-> s,
          result |-> [status |-> "skipped", models_trained |-> <<>>,
                      training_time |-> s.last_training_time],
          cf_called |-> FALSE, cf_raised |-> FALSE,
          cb_called |-> FALSE, cb_raised |-> FALSE]
    ELSE
      LET Finish(cf_called, cfRun, cb_called, cbRun, trained, ltt) ==
              [state |-> [cf |-> cfRun.state, cb |-> cbRun.state,
                          last_training_time |-> ltt,
                          saved |-> SaveModels(s.saved, cfRun.state, cbRun.state, ltt, F)],
               result |-> [status |-> "success", models_trained |-> trained,
                           training_time |-> Some(now)],
               cf_called |-> cf_called, cf_raised |-> cfRun.raised,
               cb_called |-> cb_called, cb_raised |-> cbRun.raised]
          Stamp(cf_called, cfRun, cb_called, cbRun, trained) ==
              Finish(cf_called, cfRun, cb_called, cbRun, trained,
                     TrainingTime(s.last_training_time, now, trained))
          Report(cf_called, cfRun, cb_called, cbRun) ==
              Stamp(cf_called, cfRun, cb_called, cbRun,
                  (IF cf_called /\ ~cfRun.raised /\ cfRun.state.is_trained
                   THEN <<"collaborative_filtering">> ELSE <<>>)
                  \o (IF cb_called /\ ~cbRun.raised /\ cbRun.state.is_trained
                      THEN <<"content_based_filtering">> ELSE <<>>))
          TrainContent(cf_called, cfRun, products, cb_called) ==
              Report(cf_called, cfRun, cb_called,
                     IF cb_called THEN CbTrain(s.cb, products, F)
                     ELSE [state |-> s.cb, raised |-> FALSE])
          TrainBoth(interactions, products, cfRun) ==
              TrainContent(interactions # {}, cfRun, products,
                           CbAttempted(products, cfRun))
          Fetched(interactions, products) ==
              TrainBoth(interactions, products,
                        IF interactions # {}
                        THEN CfTrain(s.cf, interactions, first, F)
                        ELSE [state |-> s.cf, raised |-> FALSE])
      IN Fetched(IF "aggregate" \in F THEN {} ELSE get_user_product_matrix(st),
                 IF "products" \in F THEN <<>> ELSE cat)

\* get_recommendations without its auto-train step
NoAutoTrain(s, now, st, cat, stale, F, first) ==
    [state |-> s, result |-> [status |-> "none"],
     cf_called |-> FALSE, cf_raised |-> FALSE,
     cb_called |-> FALSE, cb_raised |-> FALSE]

\* get_recommendations, lines 222-225: train_models() when the freshness
\* check said so; train_models evaluates the check again at its gate.
AutoTrain(s, now, st, cat, stale, F, first) ==
    IF stale
    THEN TrainModels(s, now, st, cat, FALSE, "recount" \in F, F, first)
    ELSE [state |-> s, result |-> [status |-> "none"],
          cf_called |-> FALSE, cf_raised |-> FALSE,
          cb_called |-> FALSE, cb_raised |-> FALSE]

\* sorted(xs, key=..., reverse=True): descending key, equal keys in their
\* original order.  key is a function over DOMAIN xs.
SortedReverse(xs, key) ==
    LET Rank(i) == Cardinality({j \in DOMAIN xs :
                       key[j] > key[i] \/ (key[j] = key[i] /\ j < i)}) + 1
    IN [r \in DOMAIN xs |-> xs[CHOOSE i \in DOMAIN xs : Rank(i) = r]]

Candidate(rec, algorithm) ==
    [productId |-> rec.productId, score |-> rec.score, algorithm |-> algorithm,
     contributing_algorithms |-> <<>>, details |-> Absent]

\* A blend that sorts and retags the candidates without grouping them.
HybridUngrouped(recommendations, limit) ==
    LET sorted == SortedReverse(recommendations,
                      [k \in DOMAIN recommendations |-> recommendations[k].score])
        cut == Take(sorted, limit)
    IN [k \in DOMAIN cut |->
          [productId |-> cut[k].productId, score |-> cut[k].score,
           algorithm |-> "hybrid", contributing_algorithms |-> <<cut[k].algorithm>>,
           details |-> Absent]]

\* get_recommendations, lines 260-293: group by productId in order of first
\* appearance, sum the scores, sort, cut to limit, tag 'hybrid'.
Hybrid(recommendations, limit) ==
    LET same(i) == {j \in DOMAIN recommendations :
                      recommendations[j].productId = recommendations[i].productId}
        Tagged(cut) ==
            [k \in DOMAIN cut |->
                [productId |-> cut[k].productId, score |-> cut[k].total_score,
                 algorithm |-> "hybrid", contributing_algorithms |-> cut[k].algorithms,
                 details |-> Absent]]
        Sorted(product_scores) ==
            Tagged(Take(SortedReverse(product_scores,
                     [k \in DOMAIN product_scores |-> product_scores[k].total_score]),
                   limit))
        AlgorithmsAt(idx) == [n \in DOMAIN idx |-> recommendations[idx[n]].algorithm]
        Grouped(firsts) ==
            Sorted([k \in DOMAIN firsts |->
                [productId |-> recommendations[firsts[k]].productId,
                 total_score |-> SumOver(same(firsts[k]),
                     [j \in DOMAIN recommendations |-> recommendations[j].score]),
                 algorithms |-> AlgorithmsAt(
                     SelectSeq([i \in DOMAIN recommendations |-> i],
                               LAMBDA j : j \in same(firsts[k])))]])
    IN Grouped(SelectSeq([i \in DOMAIN recommendations |-> i], LAMBDA i :
                  \A j \in 1..(i - 1) :
                      recommendations[j].productId # recommendations[i].productId))

\* _get_popular_products: event counts per product.  $sort leaves the order
\* of products with equal counts open: every such order is an outcome.  The
\* database refuses a $limit stage that is not positive: that error is
\* caught like any other.
PopularCount(st, p) == CountWhere(st, LAMBDA e : e.productId = p)
\* An aggregation without its $sort stage: the products in any order.
PopularOrdersUnsorted(st) ==
    LET ps == {e.productId : e \in EventsOf(st)}
        n == Cardinality(ps)
    IN {o \in [1..n -> ps] : \A i, j \in 1..n : i # j => o[i] # o[j]}

PopularOrders(st) ==
    LET ps == {e.productId : e \in EventsOf(st)}
        n == Cardinality(ps)
    IN {o \in [1..n -> ps] :
          /\ \A i, j \in 1..n : i # j => o[i] # o[j]
          /\ \A i \in 1..(n - 1) : PopularCount(st, o[i]) >= PopularCount(st, o[i + 1])}
get_popular_products(st, order, limit, fails) ==
    IF fails \/ limit < 1 THEN <<>>
    ELSE LET cut == Take(order, limit)
         IN [k \in DOMAIN cut |->
               [productId |-> cut[k], score |-> PopularCount(st, cut[k]) * Scale,
                algorithm |-> "popularity", contributing_algorithms |-> <<>>,
                details |-> Absent]]

\* An enrichment that keeps the entries whose product is gone.
EnrichKeepsMissing(recommendations, cat, fails) ==
    IF recommendations = <<>> THEN recommendations
    ELSE IF fails THEN recommendations
    ELSE [k \in DOMAIN recommendations |->
            IF recommendations[k].productId \in Range(cat)
            THEN [recommendations[k] EXCEPT
                     !.details = Some(ProductData[recommendations[k].productId])]
            ELSE recommendations[k]]

\* An enrichment that returns the list as it was when the lookup found none
\* of its products.
EnrichUnlessNoneFound(recommendations, cat, fails) ==
    IF recommendations = <<>> THEN recommendations
    ELSE IF fails THEN recommendations
    ELSE IF \A k \in DOMAIN recommendations : recommendations[k].productId \notin Range(cat)
    THEN recommendations
    ELSE LET Enriched(kept) ==
                 [k \in DOMAIN kept |->
                     [kept[k] EXCEPT !.details = Some(ProductData[kept[k].productId])]]
         IN Enriched(SelectSeq(recommendations, LAMBDA r : r.productId \in Range(cat)))

\* _enrich_recommendations: entries whose product is in the catalog, with
\* its details; if the catalog read raises, the list as it was.
enrich_recommendations(recommendations, cat, fails) ==
    IF recommendations = <<>> THEN recommendations
    ELSE IF fails THEN recommendations
    ELSE LET Enriched(kept) ==
                 [k \in DOMAIN kept |->
                     [kept[k] EXCEPT !.details = Some(ProductData[kept[k].productId])]]
         IN Enriched(SelectSeq(recommendations, LAMBDA r : r.productId \in Range(cat)))

Algorithms == {None, "collaborative", "content"}

\* get_recommendations, lines 227-303, on the filters cf and cb: the body of
\* the try block after the auto-train step.  order: what the popularity
\* aggregation returns.  An exception of get_user_interactions (the store
\* fails, or ObjectId rejects the user id) leaves the block; the filters,
\* the popularity fallback and the enrichment catch their own.  candidates:
\* the list handed to _enrich_recommendations (line 300).
RecommendOutcome(cfS, cbS, st, cat, user_id, limit, algorithm, F, order) ==
    IF user_id = BadId \/ "history" \in F
    THEN [raised |-> TRUE, value |-> <<>>, candidates |-> <<>>]
    ELSE
      LET Enriched(recommendations) ==
            [raised |-> FALSE,
             value |-> Take(enrich_recommendations(recommendations, cat, "enrich" \in F),
                            limit),
             candidates |-> recommendations]
          Returned(combined) ==
            Enriched(IF combined = <<>>
                     THEN get_popular_products(st, order, limit, "popular" \in F)
                     ELSE combined)
          Combine(collected) ==
              Returned(IF algorithm = None /\ collected # <<>>
                     THEN Hybrid(collected, limit) ELSE collected)
          Tag(recs, name) == [k \in DOMAIN recs |-> Candidate(recs[k], name)]
          Collect(user_interactions) ==
              Combine((IF algorithm \in {"collaborative", None} /\ cfS.is_trained
                       THEN Tag(get_user_recommendations(cfS, user_id, limit),
                                "collaborative_filtering")
                       ELSE <<>>)
                      \o (IF algorithm \in {"content", None} /\ cbS.is_trained
                             /\ user_interactions # EmptyBag
                          THEN Tag(get_user_content_recommendations(
                                       cbS, user_interactions, limit),
                                   "content_based_filtering")
                          ELSE <<>>))
      IN Collect(get_user_interactions(st, user_id))

\* A boundary that lets the exception through.
CatchNothing(outcome) == outcome

\* get_recommendations, lines 305-307: except Exception: return []
CatchAll(outcome) ==
    IF outcome.raised THEN [raised |-> FALSE, value |-> <<>>, candidates |-> <<>>]
    ELSE outcome

\* get_recommendations after the auto-train step (lines 227-307): what the
\* caller is given.
Answer(cfS, cbS, st, cat, user_id, limit, algorithm, F, order) ==
    CatchAll(RecommendOutcome(cfS, cbS, st, cat, user_id, limit, algorithm, F, order))
Recommend(cfS, cbS, st, cat, user_id, limit, algorithm, F, order) ==
    Answer(cfS, cbS, st, cat, user_id, limit, algorithm, F, order).value

\* ------------------------------------------------------------------------
\* State
\* ------------------------------------------------------------------------
VARIABLES
    clock,               \* datetime.utcnow(), in hours
    store,               \* the userinteractions collection
    catalog,             \* the products collection: ids in natural order
    cf,                  \* RecommendationService.collaborative_filter
    cb,                  \* RecommendationService.content_filter
    last_training_time,  \* RecommendationService.last_training_time
    saved,               \* the files under model_dir
    call,                \* the request being answered: arguments, result, log
    trainer              \* a training run in progress in another thread

vars == <<clock, store, catalog, cf, cb, last_training_time, saved, call, trainer>>

Engine == [cf |-> cf, cb |-> cb, last_training_time |-> last_training_time,
           saved |-> saved]

Idle == [op |-> "idle"]
Resting == [pc |-> "idle"]

\* RecommendationService.__init__ with an empty model directory, the
\* products collection holding the documents of ids
InitWith(ids) ==
    /\ clock = 0
    /\ store = EmptyBag
    /\ catalog = ids
    /\ cf = CfInit
    /\ cb = CbInit
    /\ last_training_time = Absent
    /\ saved = SavedInit
    /\ call = Idle
    /\ trainer = Resting

\* time passes
Tick ==
    /\ call = Idle
    /\ clock < MaxClock
    /\ clock' = clock + 1
    /\ UNCHANGED <<store, catalog, cf, cb, last_training_time, saved, call, trainer>>

\* the catalog service adds or removes a product
AddProductFrom(product_ids) ==
    /\ call = Idle
    /\ \E p \in product_ids \ Range(catalog) :
        /\ catalog' = SortedIds(ProductOrder, Range(catalog) \cup {p})
        /\ UNCHANGED <<clock, store, cf, cb, last_training_time, saved, call, trainer>>

RemoveProduct ==
    /\ call = Idle
    /\ \E p \in Range(catalog) :
        /\ catalog' = SelectSeq(catalog, LAMBDA q : q # p)
        /\ UNCHANGED <<clock, store, cf, cb, last_training_time, saved, call, trainer>>

\* A validation that lets every type through.
RejectedNever(interaction_type) == FALSE

\* track_interaction, lines 64-66: the type is checked first
Rejected(interaction_type) == interaction_type \notin ValidTypes

\* InteractionService.track_interaction.  attempted: insert_one was called;
\* inserted: the record whose id is returned.
TrackInteractionOn(inputs, insertFaults) ==
    /\ call = Idle
    /\ BagCardinality(store) < MaxEvents
    /\ \E input \in inputs, insertFails \in insertFaults :
        LET user_id == input[1]
            product_id == input[2]
            interaction_type == input[3]
            rejected == Rejected(interaction_type)
            attempted == ~rejected /\ user_id # BadId
            raised == ~attempted \/ insertFails
            event == [userId |-> user_id, productId |-> product_id,
                      interactionType |-> interaction_type, timestamp |-> clock]
        IN /\ CountWhere(store, LAMBDA e : <<e.userId, e.productId, e.interactionType>>
                                           = input) < MaxCopies
           /\ store' = IF raised THEN store ELSE store (+) SetToBag({event})
           /\ call' = [op |-> "track_interaction", user_id |-> user_id,
                       product_id |-> product_id, interaction_type |-> interaction_type,
                       raised |-> raised, rejected |-> rejected,
                       attempted |-> attempted,
                       insert_failed |-> attempted /\ insertFails,
                       inserted |-> IF raised THEN Absent ELSE Some(event)]
           /\ UNCHANGED <<clock, catalog, cf, cb, last_training_time, saved, trainer>>

\* train_models(force_retrain); retrain_models() is train_models(True).
\* points: the fault points the environment may hit.
TrainModelsCall(force, points) ==
    /\ call = Idle
    /\ \E F \in FaultSets(points), first \in FirstRows(store) :
        \E run \in {TrainModels(Engine, clock, store, catalog, force,
                                "count" \in F, F, first)} :
           /\ cf' = run.state.cf
           /\ cb' = run.state.cb
           /\ last_training_time' = run.state.last_training_time
           /\ saved' = run.state.saved
           /\ call' = [op |-> "train_models", force |-> force, faults |-> F,
                       trained_before |-> last_training_time, result |-> run.result,
                       cf_called |-> run.cf_called, cf_raised |-> run.cf_raised,
                       cb_called |-> run.cb_called, cb_raised |-> run.cb_raised]
           /\ UNCHANGED <<clock, store, catalog, trainer>>

\* get_recommendations(user_id, limit, algorithm)
GetRecommendationsFor(user_ids, limits, algorithms, answerPoints, trainPoints) ==
    /\ call = Idle
    /\ \E user_id \in user_ids, limit \in limits, algorithm \in algorithms,
          G \in FaultSets(answerPoints), order \in PopularOrders(store) :
        \E stale \in {ShouldRetrain(last_training_time, clock, store, "count" \in G)} :
        \E F \in (IF stale THEN {X \in FaultSets(G \cup trainPoints) : G \subseteq X}
                  ELSE {G}),
           first \in (IF stale THEN FirstRows(store) ELSE {None}) :
        \E run \in {AutoTrain(Engine, clock, store, catalog, stale, F, first)} :
        \E answer \in {Answer(run.state.cf, run.state.cb, store, catalog,
                               user_id, limit, algorithm, F, order)} :
            /\ cf' = run.state.cf
            /\ cb' = run.state.cb
            /\ last_training_time' = run.state.last_training_time
            /\ saved' = run.state.saved
            /\ call' = [op |-> "get_recommendations", user_id |-> user_id,
                        limit |-> limit, algorithm |-> algorithm, faults |-> F,
                        trained_before |-> last_training_time,
                        result |-> answer.value, raised |-> answer.raised,
                        candidates |-> answer.candidates,
                        stale |-> stale, training |-> run.result,
                        cf_called |-> run.cf_called, cf_raised |-> run.cf_raised,
                        cb_called |-> run.cb_called, cb_raised |-> run.cb_raised,
                        degraded |-> user_id = BadId \/ F \cap AnswerFaults # {}]
            /\ UNCHANGED <<clock, store, catalog, trainer>>

\* the response is delivered
Respond ==
    /\ call # Idle
    /\ call' = Idle
    /\ UNCHANGED <<clock, store, catalog, cf, cb, last_training_time, saved, trainer>>

\* ------------------------------------------------------------------------
\* Specification of the freshness state machine: time passes, interactions
\* arrive, the catalog is fixed; the only faults are those of the freshness
\* check.
\* ------------------------------------------------------------------------
TrackInputs == {<<"u1", "p1", "purchase">>, <<"u2", "p1", "purchase">>,
                <<"u2", "p2", "purchase">>}
CatalogInputs == {"p1", "p2"}

Init == InitWith(<<"p1", "p2">>)
TrackInteraction == TrackInteractionOn(TrackInputs, {FALSE})
TrainModelsUnforced == TrainModelsCall(FALSE, {"count"})
RetrainModels == TrainModelsCall(TRUE, {})
GetRecommendations ==
    GetRecommendationsFor(UserIds, 1..MaxLimit, Algorithms, {"count"}, {"recount"})

Next ==
    \/ Tick
    \/ TrackInteraction
    \/ TrainModelsUnforced
    \/ RetrainModels
    \/ GetRecommendations
    \/ Respond

Spec == Init /\ [][Next]_vars

\* ------------------------------------------------------------------------
\* Specification of training and answering under faults: the clock stands
\* still, the catalog changes, every training step and every data access of
\* a request may fail.
\* ------------------------------------------------------------------------
InitEmpty == InitWith(<<>>)
AddProduct == AddProductFrom(CatalogInputs)
TrainModelsFaulty == TrainModelsCall(FALSE, {"count"} \cup TrainFaults)
RetrainModelsFaulty == TrainModelsCall(TRUE, TrainFaults)

NextFaults ==
    \/ AddProduct
    \/ RemoveProduct
    \/ TrackInteraction
    \/ TrainModelsFaulty
    \/ RetrainModelsFaulty
    \/ Respond

SpecFaults == InitEmpty /\ [][NextFaults]_vars

\* ------------------------------------------------------------------------
\* Specification of answering: the catalog and the store change, the models
\* are retrained on demand, every data access of a request may fail.
\* ------------------------------------------------------------------------
GetRecommendationsFaulty ==
    GetRecommendationsFor(UserIds, 0..MaxLimit, Algorithms,
                          {"count"} \cup AnswerFaults, {"recount"})

NextAnswer ==
    \/ AddProduct
    \/ RemoveProduct
    \/ TrackInteraction
    \/ RetrainModels
    \/ GetRecommendationsFaulty
    \/ Respond

SpecAnswer == InitEmpty /\ [][NextAnswer]_vars

\* ------------------------------------------------------------------------
\* Specification of inference during training.  The server answers each
\* request in a thread of its own (app.run, threaded), all on the same two
\* filter objects: a forced training run proceeds statement by statement,
\* and an inference call runs between any two of its statements.
\* ------------------------------------------------------------------------
InitConc == InitWith(<<"p1">>)
AddProductLate == AddProductFrom({"p2"})

\* what the trainer does after the collaborative filter: line 173
AfterCf(products) == IF products # <<>> THEN "cb_prepare" ELSE "finish"

\* retrain_models, lines 147-163: the data is fetched; train is entered when
\* there are interactions
BeginTraining ==
    /\ call = Idle
    /\ trainer = Resting
    /\ \E first \in FirstRows(store), interactions \in {get_user_product_matrix(store)} :
        trainer' = [pc |-> IF interactions # {} THEN "cf_prepare" ELSE AfterCf(catalog),
                    start_time |-> clock,
                    df |-> IF interactions # {} THEN prepare_data(interactions, first)
                           ELSE {},
                    products |-> catalog,
                    before |-> [cf |-> cf, cb |-> cb],
                    after |-> [cf |-> IF interactions # {}
                                      THEN CfTrain(cf, interactions, first, {}).state
                                      ELSE cf,
                               cb |-> IF catalog # <<>>
                                      THEN CbTrain(cb, catalog, {}).state
                                      ELSE cb]]
    /\ UNCHANGED <<clock, store, catalog, cf, cb, last_training_time, saved, call>>

\* CollaborativeFiltering.train, lines 143-148
CfPrepared ==
    /\ call = Idle
    /\ trainer.pc = "cf_prepare"
    /\ IF trainer.df = {}
       THEN /\ cf' = [cf EXCEPT !.is_trained = FALSE]
            /\ trainer' = [trainer EXCEPT !.pc = AfterCf(trainer.products)]
       ELSE /\ cf' = cf
            /\ trainer' = [trainer EXCEPT !.pc = "cf_maps"]
    /\ UNCHANGED <<clock, store, catalog, cb, last_training_time, saved, call>>

\* create_user_item_matrix, lines 117-120
CfAssignMaps ==
    /\ call = Idle
    /\ trainer.pc = "cf_maps"
    /\ cf' = [cf EXCEPT !.user_ids = PivotUsers(trainer.df),
                        !.item_ids = PivotItems(trainer.df)]
    /\ trainer' = [trainer EXCEPT !.pc = "cf_matrix"]
    /\ UNCHANGED <<clock, store, catalog, cb, last_training_time, saved, call>>

\* CollaborativeFiltering.train, line 151
CfAssignMatrix ==
    /\ call = Idle
    /\ trainer.pc = "cf_matrix"
    /\ cf' = [cf EXCEPT !.user_item_matrix = PivotMatrix(trainer.df)]
    /\ trainer' = [trainer EXCEPT !.pc = "cf_similarity"]
    /\ UNCHANGED <<clock, store, catalog, cb, last_training_time, saved, call>>

\* CollaborativeFiltering.train, line 166
CfAssignSimilarity ==
    /\ call = Idle
    /\ trainer.pc = "cf_similarity"
    /\ cf' = [cf EXCEPT !.user_similarity_matrix = SimilarityMatrix(cf.user_item_matrix)]
    /\ trainer' = [trainer EXCEPT !.pc = "cf_flag"]
    /\ UNCHANGED <<clock, store, catalog, cb, last_training_time, saved, call>>

\* CollaborativeFiltering.train, line 168
CfSetTrained ==
    /\ call = Idle
    /\ trainer.pc = "cf_flag"
    /\ cf' = [cf EXCEPT !.is_trained = TRUE]
    /\ trainer' = [trainer EXCEPT !.pc = AfterCf(trainer.products)]
    /\ UNCHANGED <<clock, store, catalog, cb, last_training_time, saved, call>>

\* ContentBasedFiltering.train, lines 165-178: the index maps
CbAssignMaps ==
    /\ call = Idle
    /\ trainer.pc = "cb_prepare"
    /\ cb' = [cb EXCEPT !.product_ids = trainer.products]
    /\ trainer' = [trainer EXCEPT !.pc = "cb_features"]
    /\ UNCHANGED <<clock, store, catalog, cf, last_training_time, saved, call>>

\* ContentBasedFiltering.train, line 181
CbAssignFeatures ==
    /\ call = Idle
    /\ trainer.pc = "cb_features"
    /\ cb' = [cb EXCEPT !.product_features = extract_features(trainer.products)]
    /\ trainer' = [trainer EXCEPT !.pc = "cb_similarity"]
    /\ UNCHANGED <<clock, store, catalog, cf, last_training_time, saved, call>>

\* ContentBasedFiltering.train, line 189
CbAssignSimilarity ==
    /\ call = Idle
    /\ trainer.pc = "cb_similarity"
    /\ cb' = [cb EXCEPT !.product_similarity_matrix = ProductSimilarity(cb.product_features)]
    /\ trainer' = [trainer EXCEPT !.pc = "cb_flag"]
    /\ UNCHANGED <<clock, store, catalog, cf, last_training_time, saved, call>>

\* ContentBasedFiltering.train, line 191
CbSetTrained ==
    /\ call = Idle
    /\ trainer.pc = "cb_flag"
    /\ cb' = [cb EXCEPT !.is_trained = TRUE]
    /\ trainer' = [trainer EXCEPT !.pc = "finish"]
    /\ UNCHANGED <<clock, store, catalog, cf, last_training_time, saved, call>>

\* train_models, lines 183-190
FinishTraining ==
    /\ call = Idle
    /\ trainer.pc = "finish"
    /\ last_training_time' = Some(trainer.start_time)
    /\ saved' = SaveModels(saved, cf, cb, Some(trainer.start_time), {})
    /\ trainer' = Resting
    /\ UNCHANGED <<clock, store, catalog, cf, cb, call>>

\* The states of a filter that a call overlapping the run may be given
\* whole: the one before the run and the one the run leaves.
WholeStates(name) ==
    IF trainer = Resting THEN {Engine[name]}
    ELSE {trainer.before[name], trainer.after[name]}

\* get_user_recommendations called by another thread
InferCollaborative ==
    /\ call = Idle
    /\ \E user_id \in Users :
        call' = [op |-> "get_user_recommendations", seen |-> cf,
                 whole |-> WholeStates("cf"), training |-> trainer.pc,
                 result |-> get_user_recommendations(cf, user_id, MaxLimit)]
    /\ UNCHANGED <<clock, store, catalog, cf, cb, last_training_time, saved, trainer>>

\* get_similar_products called by another thread
InferContent ==
    /\ call = Idle
    /\ \E product_id \in Range(catalog) :
        call' = [op |-> "get_similar_products", seen |-> cb,
                 whole |-> WholeStates("cb"), training |-> trainer.pc,
                 result |-> get_similar_products(cb, product_id, MaxLimit)]
    /\ UNCHANGED <<clock, store, catalog, cf, cb, last_training_time, saved, trainer>>

NextConc ==
    \/ TrackInteraction
    \/ AddProductLate
    \/ BeginTraining
    \/ CfPrepared
    \/ CfAssignMaps
    \/ CfAssignMatrix
    \/ CfAssignSimilarity
    \/ CfSetTrained
    \/ CbAssignMaps
    \/ CbAssignFeatures
    \/ CbAssignSimilarity
    \/ CbSetTrained
    \/ FinishTraining
    \/ InferCollaborative
    \/ InferContent
    \/ Respond

SpecConc == InitConc /\ [][NextConc]_vars

\* ------------------------------------------------------------------------
\* Specification of the request boundary: time passes, interactions arrive,
\* and any data access or training step of a request may fail, those of the
\* training run made inside the request included.
\* ------------------------------------------------------------------------
GetRecommendationsAnyFault ==
    GetRecommendationsFor(UserIds, 1..MaxLimit, Algorithms,
                          {"count"} \cup AnswerFaults,
                          {"recount"} \cup TrainFaults)

NextCatch ==
    \/ Tick
    \/ TrackInteraction
    \/ GetRecommendationsAnyFault
    \/ Respond

SpecCatch == Init /\ [][NextCatch]_vars

\* ------------------------------------------------------------------------
\* Specification of the collaborative filter on its own, as its unit tests
\* drive it: prepare_data and train are given lists of interaction records,
\* get_user_recommendations is asked about the filter those left.
\* ------------------------------------------------------------------------
\* What a record may hold for one (user, product) pair: the set of types
\* seen and the number of interactions.  "click" is no recognised type.
PlainKinds == {[interactionTypes |-> {"view"}, interactions |-> 1],
               [interactionTypes |-> {"purchase"}, interactions |-> 1]}
RowKinds == PlainKinds \cup
            {[interactionTypes |-> {"view", "cart_add"}, interactions |-> 2],
             [interactionTypes |-> {"click"}, interactions |-> 2]}
\* the lists of records: at most MaxRows, one record per pair
RatedProducts == {"p1", "p2", "p3"}
ListsOf(kinds) ==
    UNION {{{[userId |-> pr[1], productId |-> pr[2],
              interactions |-> kind[pr].interactions,
              interactionTypes |-> kind[pr].interactionTypes] : pr \in pairs}
            : kind \in [pairs -> kinds]}
           : pairs \in {ps \in SUBSET (Users \X RatedProducts) :
                            Cardinality(ps) <= MaxRows}}
RowLists == ListsOf(RowKinds)
TrainLists == ListsOf(PlainKinds)
\* the record a list may hold first, one for each set of types (the only
\* field of the first record that prepare_data reads)
FirstOf(rows) ==
    IF rows = {} THEN {None}
    ELSE {r \in rows : r = CHOOSE q \in rows : q.interactionTypes = r.interactionTypes}

\* CollaborativeFiltering.prepare_data(interactions)
PrepareDataCall ==
    /\ call = Idle
    /\ \E rows \in RowLists : \E first \in FirstOf(rows) :
        call' = [op |-> "prepare_data", interactions |-> rows, first |-> first,
                 scored |-> IF rows = {} THEN {} ELSE ScoredRows(rows, first),
                 result |-> prepare_data(rows, first)]
    /\ UNCHANGED <<clock, store, catalog, cf, cb, last_training_time, saved, trainer>>

\* CollaborativeFiltering.train(interactions)
CfTrainCall ==
    /\ call = Idle
    /\ \E rows \in TrainLists : \E first \in FirstOf(rows) :
        \E run \in {CfTrain(cf, rows, first, {})} :
            /\ cf' = run.state
            /\ call' = [op |-> "train", interactions |-> rows, first |-> first,
                        df |-> prepare_data(rows, first), raised |-> run.raised]
    /\ UNCHANGED <<clock, store, catalog, cb, last_training_time, saved, trainer>>

\* CollaborativeFiltering.get_user_recommendations(user_id, n)
GetUserRecommendationsCall ==
    /\ call = Idle
    /\ \E user_id \in Users, n \in 1..MaxLimit :
        call' = [op |-> "get_user_recommendations", user_id |-> user_id, n |-> n,
                 result |-> get_user_recommendations(cf, user_id, n)]
    /\ UNCHANGED <<clock, store, catalog, cf, cb, last_training_time, saved, trainer>>

NextCollab ==
    \/ CfTrainCall
    \/ GetUserRecommendationsCall
    \/ Respond

SpecCollab == InitEmpty /\ [][NextCollab]_vars

\* prepare_data alone
NextPrepare ==
    \/ PrepareDataCall
    \/ Respond

SpecPrepare == InitEmpty /\ [][NextPrepare]_vars

\* ------------------------------------------------------------------------
\* Specification of the content filter on its own, as its unit tests drive
\* it: train is given the product documents of the catalog as it stands,
\* the two queries are asked about the filter that left.
\* ------------------------------------------------------------------------
AddAnyProduct == AddProductFrom(Products)

\* the prices a product document may carry: the ends of the bands, a price
\* inside each, and 0, the default of a missing price
PriceInputs == {0, 10, 25, 30, 50, 75, 100, 200, 250, 300}

\* the interaction lists a caller may pass: one or two entries
InteractionInputs ==
    {[productId |-> p, interactionType |-> t] : p \in Products, t \in {"view", "purchase"}}
InteractionLists ==
    {SetToBag(es) : es \in {x \in SUBSET InteractionInputs : Cardinality(x) \in 1..2}}

\* ContentBasedFiltering.prepare_product_data: the price band of a document
PrepareProductDataCall ==
    /\ call = Idle
    /\ \E price \in PriceInputs :
        call' = [op |-> "prepare_product_data", price |-> price,
                 price_category |-> price_category(price)]
    /\ UNCHANGED <<clock, store, catalog, cf, cb, last_training_time, saved, trainer>>

\* ContentBasedFiltering.train(products)
CbTrainCall ==
    /\ call = Idle
    /\ \E run \in {CbTrain(cb, catalog, {})} :
        /\ cb' = run.state
        /\ call' = [op |-> "train", products |-> catalog, raised |-> run.raised]
    /\ UNCHANGED <<clock, store, catalog, cf, last_training_time, saved, trainer>>

\* ContentBasedFiltering.get_similar_products(product_id, n)
GetSimilarProductsCall ==
    /\ call = Idle
    /\ \E product_id \in Products, n \in 1..MaxLimit :
        call' = [op |-> "get_similar_products", product_id |-> product_id, n |-> n,
                 result |-> get_similar_products(cb, product_id, n)]
    /\ UNCHANGED <<clock, store, catalog, cf, cb, last_training_time, saved, trainer>>

\* ContentBasedFiltering.get_user_content_recommendations(user_interactions, n)
GetUserContentRecommendationsCall ==
    /\ call = Idle
    /\ \E user_interactions \in InteractionLists, n \in 1..MaxLimit :
        call' = [op |-> "get_user_content_recommendations",
                 user_interactions |-> user_interactions, n |-> n,
                 result |-> get_user_content_recommendations(cb, user_interactions, n)]
    /\ UNCHANGED <<clock, store, catalog, cf, cb, last_training_time, saved, trainer>>

NextContent ==
    \/ AddAnyProduct
    \/ RemoveProduct
    \/ PrepareProductDataCall
    \/ CbTrainCall
    \/ GetSimilarProductsCall
    \/ GetUserContentRecommendationsCall
    \/ Respond

SpecContent == InitEmpty /\ [][NextContent]_vars

\* ------------------------------------------------------------------------
\* Specification of interaction tracking: clients send recognised and
\* unrecognised types, well-formed and malformed user ids, and the insert
\* may fail.
\* ------------------------------------------------------------------------
TrackAnyInputs == UserIds \X {"p1", "p2"} \X TypeInputs
TrackAnyInteraction == TrackInteractionOn(TrackAnyInputs, {FALSE, TRUE})

NextTrack ==
    \/ Tick
    \/ TrackAnyInteraction
    \/ Respond

SpecTrack == InitEmpty /\ [][NextTrack]_vars

\* ------------------------------------------------------------------------
\* Specification of the interaction endpoint: clients post bodies that lack
\* fields or carry unrecognised types and malformed ids, and the insert may
\* fail.
\* ------------------------------------------------------------------------
RequiredFields == {"userId", "productId", "interactionType"}

\* the JSON bodies a client may post: any of the required fields present
Bodies ==
    {[f \in present |-> CASE f = "userId" -> input[1]
                          [] f = "productId" -> input[2]
                          [] f = "interactionType" -> input[3]]
       : present \in SUBSET RequiredFields, input \in TrackAnyInputs}

\* app.track_interaction, lines 68-104: the response for a body, given
\* whether the service call raised
InteractionResponse(data, raised) ==
    IF DOMAIN data # RequiredFields
    THEN [status |-> 400, success |-> FALSE, code |-> "VALIDATION_ERROR"]
    ELSE IF raised
    THEN [status |-> 500, success |-> FALSE, code |-> "INTERACTION_ERROR"]
    ELSE [status |-> 200, success |-> TRUE, code |-> ""]

\* POST /interactions: the fields are checked, then
\* InteractionService.track_interaction is called with them
PostInteraction ==
    /\ call = Idle
    /\ BagCardinality(store) < MaxEvents
    /\ \E data \in Bodies, insertFails \in {FALSE, TRUE} :
        LET called == DOMAIN data = RequiredFields
            rejected == called /\ Rejected(data.interactionType)
            attempted == called /\ ~rejected /\ data.userId # BadId
            raised == called /\ (~attempted \/ insertFails)
            event == [userId |-> data.userId, productId |-> data.productId,
                      interactionType |-> data.interactionType, timestamp |-> clock]
        IN /\ called =>
                CountWhere(store, LAMBDA e :
                    <<e.userId, e.productId, e.interactionType>>
                      = <<data.userId, data.productId, data.interactionType>>) < MaxCopies
           /\ store' = IF called /\ ~raised THEN store (+) SetToBag({event}) ELSE store
           /\ call' = [op |-> "POST /interactions", data |-> data,
                       called |-> called, rejected |-> rejected,
                       attempted |-> attempted,
                       response |-> InteractionResponse(data, raised)]
           /\ UNCHANGED <<clock, catalog, cf, cb, last_training_time, saved, trainer>>

NextApi ==
    \/ Tick
    \/ PostInteraction
    \/ Respond

SpecApi == InitEmpty /\ [][NextApi]_vars

\* ------------------------------------------------------------------------
\* Specification of the queries on absent data: the two filters are trained
\* on lists of records, the empty list included, and on the products of a
\* fixed catalog, and are asked about users and products they know and do
\* not know, before and after training.
\* ------------------------------------------------------------------------
\* CollaborativeFiltering.get_similar_users(user_id, n_users)
GetSimilarUsersCall ==
    /\ call = Idle
    /\ \E user_id \in Users, n_users \in 1..MaxLimit :
        call' = [op |-> "get_similar_users", user_id |-> user_id, n_users |-> n_users,
                 result |-> get_similar_users(cf, user_id, n_users)]
    /\ UNCHANGED <<clock, store, catalog, cf, cb, last_training_time, saved, trainer>>

NextAbsence ==
    \/ CfTrainCall
    \/ GetUserRecommendationsCall
    \/ GetSimilarUsersCall
    \/ CbTrainCall
    \/ GetSimilarProductsCall
    \/ Respond

SpecAbsence == Init /\ [][NextAbsence]_vars

\* ------------------------------------------------------------------------
\* Specification of overlapping training runs.  One run is followed
\* statement by statement, as in the specification of inference during
\* training; the requests of the other threads, a forced retrain or a
\* get_recommendations that trains first, are taken whole between any two
\* of its statements and work on the same two filter objects.
\* ------------------------------------------------------------------------
\* One run at a time: a request is let in when no run is in flight.
AdmittedWhenResting(running) == running = Resting

\* train_models, lines 138-148: the freshness gate is all that is tested
\* before a run starts; no lock is taken and no run in flight is looked for.
Admitted(running) == TRUE

\* get_recommendations, lines 222-225, in the thread that is followed: the
\* engine is found Stale or Untrained and train_models is entered
BeginAutoTraining ==
    /\ ShouldRetrain(last_training_time, clock, store, FALSE)
    /\ BeginTraining

\* the followed run is between two of its statements
InFlight == trainer # Resting

\* a request arriving in another thread while the run is in flight starts
\* at once (app.run answers each request in a thread of its own)
LetIn == call = Idle /\ InFlight /\ Admitted(trainer)

\* POST /retrain in another thread
RetrainRequest ==
    /\ LetIn
    /\ RetrainModels

\* GET /recommendations in another thread
RecommendRequest ==
    /\ LetIn
    /\ GetRecommendationsFor({"u1"}, {MaxLimit}, {None}, {}, {})

\* the interactions recorded meanwhile: enough to make the engine Stale
TrackPurchase ==
    TrackInteractionOn({<<"u1", "p1", "purchase">>, <<"u2", "p1", "purchase">>}, {FALSE})

NextOverlap ==
    \/ Tick
    \/ TrackPurchase
    \/ BeginAutoTraining
    \/ CfPrepared
    \/ CfAssignMaps
    \/ CfAssignMatrix
    \/ CfAssignSimilarity
    \/ CfSetTrained
    \/ CbAssignMaps
    \/ CbAssignFeatures
    \/ CbAssignSimilarity
    \/ CbSetTrained
    \/ FinishTraining
    \/ RetrainRequest
    \/ RecommendRequest
    \/ Respond

SpecOverlap == Init /\ [][NextOverlap]_vars

\* ------------------------------------------------------------------------
\* The freshness state of the engine, from the state of a step's start
\* ------------------------------------------------------------------------
HasTrainingTime == last_training_time # Absent
IntervalReached == clock - last_training_time[1] >= retrain_interval_hours
VolumeReached == NewInteractions(store, last_training_time) >= min_new_interactions
Stale == HasTrainingTime /\ IntervalReached /\ VolumeReached
Fresh == HasTrainingTime /\ ~(IntervalReached /\ VolumeReached)

Recommending == call'.op = "get_recommendations"
Training == call'.op = "train_models"

\* ------------------------------------------------------------------------
\* C1: with a last training time set, the freshness check reports Stale
\* only when the interval has passed AND enough new interactions were
\* recorded; it does at every evaluation: the one of get_recommendations and
\* the one at the gate of train_models(force_retrain=False).
\* ------------------------------------------------------------------------
C1_StaleNeedsBoth ==
    [][/\ (Recommending /\ HasTrainingTime /\ call'.stale)
            => IntervalReached /\ VolumeReached
       /\ (Training /\ ~call'.force /\ HasTrainingTime
             /\ call'.result.status # "skipped")
            => IntervalReached /\ VolumeReached]_vars

\* a request found the engine Stale, a last training time being set
C1_Witness ==
    /\ call.op = "get_recommendations"
    /\ call.trained_before # Absent
    /\ call.stale

\* ------------------------------------------------------------------------
\* C2 (as amended): get_recommendations called while the engine is Stale,
\* the count queries of both freshness evaluations succeeding, carries out a
\* training run before candidates are collected: last_training_time has
\* advanced and the list is the one the filters left by that run give.
\* ------------------------------------------------------------------------
AnswersOf(cfS, cbS) ==
    {Recommend(cfS, cbS, store, catalog, call'.user_id, call'.limit,
               call'.algorithm, call'.faults, order) : order \in PopularOrders(store)}

InlineTrained ==
    /\ call'.training.status = "success"
    /\ last_training_time' # Absent
    /\ last_training_time'[1] > last_training_time[1]
    /\ call'.cf_called = (store # EmptyBag)
    /\ call'.cb_called = (catalog # <<>>)
    /\ call'.result \in AnswersOf(cf', cb')

C3_SkipChangesNothing ==
    [][(Training /\ ~call'.force /\ Fresh)
          => /\ call'.result.status = "skipped"
             /\ ~call'.cf_called /\ ~call'.cb_called
             /\ cf' = cf /\ cb' = cb
             /\ last_training_time' = last_training_time
             /\ saved' = saved]_vars

\* an unforced train_models was skipped on a trained engine with new data
C3_Witness ==
    /\ call.op = "train_models"
    /\ ~call.force
    /\ call.trained_before # Absent
    /\ call.result.status = "skipped"
    /\ call.faults = {}
    /\ cf.is_trained
    /\ NewInteractions(store, last_training_time) > 0

\* ------------------------------------------------------------------------
\* C4 (as amended): the engine leaves Untrained through every training run
\* that is not skipped, whether or not a filter ended trained:
\* last_training_time is set to the start of the first run, and only a run
\* sets it.
\* ------------------------------------------------------------------------
RunStatus ==
    IF Training THEN call'.result.status
    ELSE IF Recommending THEN call'.training.status
    ELSE "none"

C4_AnyRunLeavesUntrained ==
    [][/\ (~HasTrainingTime /\ last_training_time' # Absent)
            => RunStatus = "success" /\ last_training_time' = Some(clock)
       /\ (~HasTrainingTime /\ Training)
            => call'.result.status = "success" /\ last_training_time' = Some(clock)]_vars

\* C4 as stated: Untrained is left only by a run after which a filter is
\* trained
C4_Original ==
    [][(~HasTrainingTime /\ last_training_time' # Absent)
          => cf'.is_trained \/ cb'.is_trained]_vars

\* the first run trained no filter and set the training time
C4_Witness ==
    /\ call.op = "train_models"
    /\ call.trained_before = Absent
    /\ call.result.status = "success"
    /\ call.result.models_trained = <<>>
    /\ ~cf.is_trained /\ ~cb.is_trained
    /\ last_training_time # Absent

\* ------------------------------------------------------------------------
\* C5 (as amended): when a filter's train call fails with an unexpected
\* error, the error propagates to the caller and is_trained is false
\* afterwards; the fields assigned before the failing step (index maps,
\* user-item or feature matrix) hold the new run's values, the similarity
\* matrix keeps the old one, and the filter serves no recommendation.
\* ------------------------------------------------------------------------
CfKept(old, new) ==
    /\ new.user_ids = old.user_ids /\ new.item_ids = old.item_ids
    /\ new.user_item_matrix = old.user_item_matrix

CfReplaced(new) ==
    \E first \in FirstRows(store) :
        LET df == prepare_data(get_user_product_matrix(store), first)
        IN /\ new.user_ids = PivotUsers(df) /\ new.item_ids = PivotItems(df)
           /\ new.user_item_matrix = PivotMatrix(df)

CbKept(old, new) ==
    new.product_ids = old.product_ids /\ new.product_features = old.product_features

CbReplaced(old, new) ==
    /\ new.product_ids = catalog
    /\ new.product_features \in {old.product_features, extract_features(catalog)}

C9_ForcedRunTrainsBoth ==
    [][(Training /\ call'.force)
          => /\ call'.result.status = "success"
             /\ last_training_time' = Some(clock)
             /\ call'.cf_called = (store # EmptyBag /\ "aggregate" \notin call'.faults)
             /\ call'.cb_called = (catalog # <<>> /\ "products" \notin call'.faults)
             /\ call'.result.models_trained =
                   (IF call'.cf_called /\ ~call'.cf_raised /\ cf'.is_trained
                    THEN <<"collaborative_filtering">> ELSE <<>>)
                   \o (IF call'.cb_called /\ ~call'.cb_raised /\ cb'.is_trained
                       THEN <<"content_based_filtering">> ELSE <<>>)]_vars

\* a forced run on a fresh engine: the collaborative train raised, the
\* content filter was trained all the same, status 'success'
C9_Witness ==
    /\ call.op = "train_models"
    /\ call.force
    /\ call.trained_before = Some(clock)
    /\ call.cf_raised
    /\ call.cb_called
    /\ call.result.status = "success"
    /\ call.result.models_trained = <<"content_based_filtering">>

\* ------------------------------------------------------------------------
\* C10: when one filter's train raises in a training run, is_trained is
\* false afterwards for that filter, and the other filter ends as its own
\* training leaves it: trained on the fetched data, or untouched when its
\* fetch gave nothing.
\* ------------------------------------------------------------------------
CbOwnOutcome ==
    IF call'.cb_called THEN CbTrain(cb, catalog, {}).state ELSE cb

CfOwnOutcomes ==
    IF call'.cf_called
    THEN {CfTrain(cf, get_user_product_matrix(store), first, {}).state :
             first \in FirstRows(store)}
    ELSE {cf}

C10_FailureStaysWithItsFilter ==
    [][/\ (Training /\ call'.cf_raised /\ ~call'.cb_raised)
            => ~cf'.is_trained /\ cb' = CbOwnOutcome
       /\ (Training /\ call'.cb_raised /\ ~call'.cf_raised)
            => ~cb'.is_trained /\ cf' \in CfOwnOutcomes]_vars

\* the collaborative train raised on a trained filter while the content
\* filter was trained by the same run
C10_Witness ==
    /\ call.op = "train_models"
    /\ call.cf_raised
    /\ cf.user_similarity_matrix # Absent
    /\ ~cf.is_trained
    /\ call.cb_called
    /\ cb.is_trained

\* ------------------------------------------------------------------------
\* C7: with at least one interaction in the store and at least one product
\* in the catalog, get_recommendations (limit >= 1) gives every user a
\* non-empty list.  Stated for requests during which no data access fails.
\* ------------------------------------------------------------------------
C7_NonEmptyWhenDataExists ==
    [][(Recommending /\ call'.faults = {} /\ call'.user_id \in Users
          /\ call'.limit >= 1 /\ store # EmptyBag /\ catalog # <<>>)
          => call'.result # <<>>]_vars

\* ------------------------------------------------------------------------
\* C8: in hybrid mode no productId appears twice in the returned list, and
\* an entry tagged 'hybrid' carries the sum of the scores the filters gave
\* its product and the algorithms that proposed it, collaborative first: a
\* product proposed by both is one entry with both.
\* ------------------------------------------------------------------------
ScoreIn(recs, p) ==
    SumOver({k \in DOMAIN recs : recs[k].productId = p},
            [k \in DOMAIN recs |-> recs[k].score])

Proposes(recs, p) == \E k \in DOMAIN recs : recs[k].productId = p

CollabProposed == get_user_recommendations(cf', call'.user_id, call'.limit)

ContentProposed ==
    LET user_interactions == get_user_interactions(store, call'.user_id)
    IN IF cb'.is_trained /\ user_interactions # EmptyBag
       THEN get_user_content_recommendations(cb', user_interactions, call'.limit)
       ELSE <<>>

C8_HybridGroupsByProduct ==
    [][(Recommending /\ call'.algorithm = None)
          => LET result == call'.result
             IN /\ \A i, j \in DOMAIN result :
                       i # j => result[i].productId # result[j].productId
                /\ \A k \in DOMAIN result :
                       result[k].algorithm = "hybrid" =>
                         LET p == result[k].productId
                         IN /\ result[k].score = ScoreIn(CollabProposed, p)
                                                   + ScoreIn(ContentProposed, p)
                            /\ result[k].contributing_algorithms =
                                 (IF Proposes(CollabProposed, p)
                                  THEN <<"collaborative_filtering">> ELSE <<>>)
                                 \o (IF Proposes(ContentProposed, p)
                                     THEN <<"content_based_filtering">> ELSE <<>>)]_vars

\* a hybrid answer holds a product that both filters proposed
C8_Witness ==
    /\ call.op = "get_recommendations"
    /\ call.algorithm = None
    /\ \E k \in DOMAIN call.result :
          /\ call.result[k].algorithm = "hybrid"
          /\ call.result[k].contributing_algorithms =
                <<"collaborative_filtering", "content_based_filtering">>
          /\ call.result[k].details # Absent

\* ------------------------------------------------------------------------
\* C6: an inference call that runs while train is at work on the same
\* filter, and finds the filter trained, reads the filter as it was before
\* the run or as the run leaves it, never fields of both.
\* ------------------------------------------------------------------------
C6_ReadsWholeState ==
    (call.op \in {"get_user_recommendations", "get_similar_products"}
       /\ call.seen.is_trained)
        => call.seen \in call.whole

\* ------------------------------------------------------------------------
\* C11: get_recommendations never lets an exception reach its caller:
\* whatever fails inside it (interaction store, catalog, freshness check,
\* the training run made inside it, either filter), the caller is given a
\* list, and the empty one when the request itself could not be carried on.
\* ------------------------------------------------------------------------
C11_NoExceptionEscapes ==
    [][Recommending
          => /\ ~call'.raised
             /\ Len(call'.result) <= call'.limit
             /\ (call'.user_id = BadId \/ "history" \in call'.faults)
                   => call'.result = <<>>]_vars

\* a request of a user with interactions, on trained filters, was answered
\* with the empty list when the read of the user's interactions failed
C11_Witness ==
    /\ call.op = "get_recommendations"
    /\ "history" \in call.faults
    /\ call.user_id \in Users
    /\ get_user_interactions(store, call.user_id) # EmptyBag
    /\ cf.is_trained /\ cb.is_trained
    /\ ~call.raised
    /\ call.result = <<>>

\* ------------------------------------------------------------------------
\* C12: for a collaborative filter that train left trained, and every user
\* known to it, get_user_recommendations(user, n) returns no product that
\* appears with that user in a record of the training input.
\* ------------------------------------------------------------------------
TrainingCf == call'.op = "train"

InteractedWith(rows, u) == {r.productId : r \in {q \in rows : q.userId = u}}

C12_NeverRecommendsInteracted ==
    [][(TrainingCf /\ cf'.is_trained)
          => \A u \in Range(cf'.user_ids), n \in 1..MaxLimit :
                \A k \in DOMAIN get_user_recommendations(cf', u, n) :
                    get_user_recommendations(cf', u, n)[k].productId
                        \notin InteractedWith(call'.interactions, u)]_vars

\* ------------------------------------------------------------------------
\* C13: prepare_data gives every record that holds a recognised type the sum
\* of the weights (view 1, cart_add 2, purchase 3) of the types in its own
\* interactionTypes, whatever the other records and whichever record comes
\* first.
\* ------------------------------------------------------------------------
Preparing == call'.op = "prepare_data"

RecordOf(rows, r) ==
    CHOOSE q \in rows : q.userId = r.userId /\ q.productId = r.productId

OwnWeights(q) == SumOver(q.interactionTypes \cap ValidTypes, interaction_weights)

C13_ScoreIsOwnWeights ==
    [][Preparing
          => \A r \in call'.scored :
                RecordOf(call'.interactions, r).interactionTypes \cap ValidTypes # {}
                    => r.score = OwnWeights(RecordOf(call'.interactions, r))]_vars

\* ------------------------------------------------------------------------
\* C14: a record whose interactionTypes holds no recognised type is given
\* its raw interaction count as score.
\* ------------------------------------------------------------------------
C14_CountWhenNoType ==
    [][Preparing
          => \A r \in call'.scored :
                RecordOf(call'.interactions, r).interactionTypes \cap ValidTypes = {}
                    => r.score = r.interactions]_vars

\* ------------------------------------------------------------------------
\* C15: prepare_data keeps exactly the records whose user's total score and
\* whose product's total score, each summed over the whole input, are both
\* at least min_interactions; when none qualifies the result is empty,
\* nothing is raised and train leaves is_trained = false.
\* ------------------------------------------------------------------------
ScoreColumn == IF call'.interactions = {} THEN {}
               ELSE ScoredRows(call'.interactions, call'.first)

TotalOf(rows) == SumOver(rows, [r \in rows |-> r.score])

C15_KeepsUsersAndItemsAboveMinimum ==
    [][TrainingCf
          => /\ call'.df =
                  {r \in ScoreColumn :
                      /\ TotalOf({q \in ScoreColumn : q.userId = r.userId})
                            >= min_interactions
                      /\ TotalOf({q \in ScoreColumn : q.productId = r.productId})
                            >= min_interactions}
             /\ call'.df = {}
                   => /\ ~call'.raised
                      /\ cf' = [cf EXCEPT !.is_trained = FALSE]]_vars

\* a trained filter was trained again on records none of which qualified
C15_Witness ==
    /\ call.op = "train"
    /\ call.interactions # {}
    /\ \E r, q \in call.interactions : r.userId # q.userId
    /\ call.df = {}
    /\ ~call.raised
    /\ cf.user_similarity_matrix # Absent
    /\ ~cf.is_trained

\* ------------------------------------------------------------------------
\* C17 (as amended): get_user_recommendations returns at most n (productId,
\* score) pairs, all with a score above 0, no product twice, in an order in
\* which the score never increases.
\* ------------------------------------------------------------------------
AskingCf == call'.op = "get_user_recommendations"

C17_TopPositiveDescending ==
    [][AskingCf
          => LET result == call'.result
             IN /\ Len(result) <= call'.n
                /\ \A k \in DOMAIN result :
                      /\ result[k].score > 0
                      /\ result[k].productId \in Range(cf.item_ids)
                /\ \A k, l \in DOMAIN result :
                      k < l => /\ result[k].score >= result[l].score
                               /\ result[k].productId # result[l].productId]_vars

\* C17 as stated: two items of equal score come in column order
C17_Original ==
    [][AskingCf
          => \A k, l \in DOMAIN call'.result :
                (k < l /\ call'.result[k].score = call'.result[l].score)
                    => IndexOf(cf.item_ids, call'.result[k].productId)
                         < IndexOf(cf.item_ids, call'.result[l].productId)]_vars

\* two items of equal score were returned
C17_Witness ==
    /\ call.op = "get_user_recommendations"
    /\ Len(call.result) = 2
    /\ call.result[1].score = call.result[2].score
    /\ call.result[1].score > 0

\* ------------------------------------------------------------------------
\* C16: for a trained content filter and a product id known to it,
\* get_similar_products(productId, n) never holds productId itself, also
\* when another product has the same feature vector.
\* ------------------------------------------------------------------------
AskingSimilar == call'.op = "get_similar_products"

C16_NeverSimilarToItself ==
    [][(AskingSimilar /\ cb.is_trained /\ call'.product_id \in Range(cb.product_ids))
          => \A k \in DOMAIN call'.result :
                call'.result[k].productId # call'.product_id]_vars

\* ------------------------------------------------------------------------
\* C18: for a trained content filter and a non-empty interaction list,
\* get_user_content_recommendations returns at most n products, each with a
\* score above 0, in an order in which the score never increases, none of
\* them a product of the interaction list.
\* ------------------------------------------------------------------------
AskingContent == call'.op = "get_user_content_recommendations"

C18_ContentTopExcludesInteracted ==
    [][(AskingContent /\ cb.is_trained /\ call'.user_interactions # EmptyBag)
          => LET result == call'.result
             IN /\ Len(result) <= call'.n
                /\ \A k \in DOMAIN result :
                      /\ result[k].score > 0
                      /\ result[k].productId \in Range(cb.product_ids)
                      /\ \A pt \in BagToSet(call'.user_interactions) :
                            pt.productId # result[k].productId
                /\ \A k, l \in DOMAIN result :
                      k < l => /\ result[k].score >= result[l].score
                               /\ result[k].productId # result[l].productId]_vars

\* a filter trained on three products or more was asked with a list that
\* holds a product it knows, and proposed something
C18_Witness ==
    /\ call.op = "get_user_content_recommendations"
    /\ cb.is_trained
    /\ \E pt \in BagToSet(call.user_interactions) : pt.productId \in Range(cb.product_ids)
    /\ Len(cb.product_ids) >= 3
    /\ call.result # <<>>

\* ------------------------------------------------------------------------
\* C19: prepare_product_data gives every product the price band of the
\* half-open interval holding its price: [0,25) budget, [25,50) low,
\* [50,100) medium, [100,250) high, [250,inf) premium.
\* ------------------------------------------------------------------------
BandOf(price) ==
    IF price < 25 THEN "budget"
    ELSE IF price < 50 THEN "low"
    ELSE IF price < 100 THEN "medium"
    ELSE IF price < 250 THEN "high"
    ELSE "premium"

C19_HalfOpenPriceBands ==
    [][call'.op = "prepare_product_data"
          => call'.price_category = BandOf(call'.price)]_vars

\* ------------------------------------------------------------------------
\* C20: track_interaction with a type other than view, cart_add or purchase
\* raises before any storage attempt and leaves the store as it was; with a
\* recognised type and well-formed ids (the insert itself not failing)
\* exactly one record, carrying that type, is inserted and its id returned.
\* ------------------------------------------------------------------------
Tracking == call'.op = "track_interaction"

C20_InvalidTypeRejectedFirst ==
    [][Tracking
          => /\ call'.interaction_type \notin ValidTypes
                   => /\ call'.raised /\ ~call'.attempted
                      /\ call'.inserted = Absent
                      /\ store' = store
             /\ (/\ call'.interaction_type \in ValidTypes
                 /\ call'.user_id # BadId
                 /\ ~call'.insert_failed)
                   => /\ ~call'.raised
                      /\ call'.inserted # Absent
                      /\ call'.inserted[1].interactionType = call'.interaction_type
                      /\ call'.inserted[1].userId = call'.user_id
                      /\ call'.inserted[1].productId = call'.product_id
                      /\ store' = store (+) SetToBag({call'.inserted[1]})
                      /\ BagCardinality(store') = BagCardinality(store) + 1]_vars

\* an unrecognised type was refused by a store that already holds records
C20_Witness ==
    /\ call.op = "track_interaction"
    /\ call.interaction_type = "click"
    /\ call.user_id \in Users
    /\ call.raised /\ call.rejected /\ ~call.attempted
    /\ store # EmptyBag

\* ------------------------------------------------------------------------
\* C21: POST /interactions answers every invalid request, a body that lacks
\* a required field or carries an unrecognised interactionType, with status
\* 400 and success = false.
\* ------------------------------------------------------------------------
Posting == call'.op = "POST /interactions"

InvalidRequest(data) ==
    \/ DOMAIN data # RequiredFields
    \/ data.interactionType \notin ValidTypes

C21_InvalidRequestGets400 ==
    [][(Posting /\ InvalidRequest(call'.data))
          => /\ call'.response.status = 400
             /\ ~call'.response.success]_vars

\* ------------------------------------------------------------------------
\* C22 (as amended): when the catalog lookup of the enrichment succeeds,
\* every entry get_recommendations returns refers to a product of the
\* catalog and carries its name, price, category and images; the candidates
\* whose product is not in the catalog are dropped and the others keep
\* their order, productId, score and algorithm tag.  When the lookup raises,
\* the candidates are returned as they were, none dropped, none enriched.
\* ------------------------------------------------------------------------
InCatalog(recommendations) ==
    SelectSeq(recommendations, LAMBDA r : r.productId \in Range(catalog))

EnrichedFrom(entry, candidate) ==
    /\ entry.productId = candidate.productId
    /\ entry.score = candidate.score
    /\ entry.algorithm = candidate.algorithm
    /\ entry.contributing_algorithms = candidate.contributing_algorithms
    /\ entry.productId \in Range(catalog)
    /\ entry.details = Some(ProductData[entry.productId])

Survivors(result, kept, limit) ==
    /\ Len(result) = (IF Len(kept) < limit THEN Len(kept) ELSE limit)
    /\ \A k \in DOMAIN result : EnrichedFrom(result[k], kept[k])

C22_EnrichedFromCatalog ==
    [][Recommending
          => IF "enrich" \in call'.faults
             THEN call'.result = Take(call'.candidates, call'.limit)
             ELSE Survivors(call'.result, InCatalog(call'.candidates), call'.limit)]_vars

\* C22 as stated: whatever happens to the lookup
C22_Original ==
    [][Recommending
          => Survivors(call'.result, InCatalog(call'.candidates), call'.limit)]_vars

\* of two candidates the first was dropped, its product being gone from the
\* catalog, and the second was returned with its details
C22_Witness ==
    /\ call.op = "get_recommendations"
    /\ "enrich" \notin call.faults
    /\ Len(call.candidates) = 2
    /\ call.limit = 2
    /\ call.candidates[1].productId \notin Range(catalog)
    /\ Len(call.result) = 1
    /\ call.result[1].productId = call.candidates[2].productId
    /\ call.result[1].details # Absent

\* ------------------------------------------------------------------------
\* C23: for every user, every algorithm filter and every limit >= 0,
\* get_recommendations returns at most limit recommendations: none for
\* limit 0, and no more than limit when the filters and the popularity
\* ranking have more to offer or the enrichment fails.
\* ------------------------------------------------------------------------
C23_AtMostLimit ==
    [][(Recommending /\ call'.limit >= 0)
          => /\ Len(call'.result) <= call'.limit
             /\ call'.limit = 0 => call'.result = <<>>]_vars

\* a request with limit 1 was answered with one popular product while the
\* store holds events of two products of the catalog
C23_Witness ==
    /\ call.op = "get_recommendations"
    /\ call.limit = 1
    /\ Len(call.result) = 1
    /\ call.result[1].algorithm = "popularity"
    /\ \E e1, e2 \in EventsOf(store) :
          /\ e1.productId # e2.productId
          /\ {e1.productId, e2.productId} \subseteq Range(catalog)

TagsOf(recommendations) ==
    {recommendations[k].algorithm : k \in DOMAIN recommendations}

Personalised == CollabProposed # <<>> \/ ContentProposed # <<>>

RankedByCount(recommendations, limit) ==
    /\ \A k \in DOMAIN recommendations :
          recommendations[k].score
             = PopularCount(store, recommendations[k].productId) * Scale
    /\ \A k, l \in DOMAIN recommendations :
          k < l => /\ recommendations[k].score >= recommendations[l].score
                   /\ recommendations[k].productId # recommendations[l].productId
    /\ \A k \in DOMAIN recommendations, e \in EventsOf(store) :
          (\A l \in DOMAIN recommendations : recommendations[l].productId # e.productId)
             => /\ PopularCount(store, e.productId) * Scale <= recommendations[k].score
                /\ Len(recommendations) = limit

C26_PopularityOnlyAsFallback ==
    [][(Recommending /\ call'.algorithm = None /\ call'.user_id \in Users
          /\ "history" \notin call'.faults)
          => /\ TagsOf(call'.candidates) \in {{}, {"hybrid"}, {"popularity"}}
             /\ TagsOf(call'.result) \subseteq TagsOf(call'.candidates)
             /\ Personalised => TagsOf(call'.candidates) = {"hybrid"}
             /\ ~Personalised => TagsOf(call'.candidates) \subseteq {"popularity"}
             /\ (~Personalised /\ "popular" \notin call'.faults /\ call'.limit >= 1)
                   => /\ RankedByCount(call'.candidates, call'.limit)
                      /\ store # EmptyBag => call'.candidates # <<>>
             /\ TagsOf(call'.result) = {"popularity"}
                   => \A k, l \in DOMAIN call'.result :
                         /\ call'.result[k].score
                              = PopularCount(store, call'.result[k].productId) * Scale
                         /\ k < l => call'.result[k].score >= call'.result[l].score]_vars

\* a hybrid request of a user whom the trained filters proposed nothing was
\* answered with two popular products of different counts
C26_Witness ==
    /\ call.op = "get_recommendations"
    /\ call.algorithm = None
    /\ cf.is_trained \/ cb.is_trained
    /\ Len(call.result) = 2
    /\ call.result[1].algorithm = "popularity"
    /\ call.result[1].score > call.result[2].score

\* ------------------------------------------------------------------------
\* C24: absent data gives an empty result: get_user_recommendations and
\* get_similar_users return [] when the collaborative filter is untrained
\* or the user is not in its index, get_similar_products returns [] when
\* the content filter is untrained or the product is not in its index, and
\* train([]) returns without raising and leaves is_trained = false.
\* ------------------------------------------------------------------------
AskingUsers == call'.op = "get_similar_users"

UserAbsent == ~cf.is_trained \/ call'.user_id \notin Range(cf.user_ids)

ProductAbsent == ~cb.is_trained \/ call'.product_id \notin Range(cb.product_ids)

\* the train call of the collaborative filter (the content filter's holds
\* products)
TrainingOnRecords == call'.op = "train" /\ "interactions" \in DOMAIN call'

C24_AbsentDataGivesEmpty ==
    [][/\ (AskingCf /\ UserAbsent) => call'.result = <<>>
       /\ (AskingUsers /\ UserAbsent) => call'.result = <<>>
       /\ (AskingSimilar /\ ProductAbsent) => call'.result = <<>>
       /\ (TrainingOnRecords /\ call'.interactions = {})
             => ~call'.raised /\ ~cf'.is_trained]_vars

\* a filter that had served two users was given train([]) and then asked
\* for the recommendations of one of them
C24_Witness ==
    /\ call.op = "get_user_recommendations"
    /\ ~cf.is_trained
    /\ Len(cf.user_ids) = 2
    /\ call.user_id \in Range(cf.user_ids)
    /\ cf.user_similarity_matrix # Absent
    /\ call.result = <<>>

\* ------------------------------------------------------------------------
\* C27: every training run that is not skipped, forced or not, sets
\* last_training_time to its start, after which the freshness check is
\* false: the engine is not Stale.  Nothing else changes last_training_time,
\* and an unforced run on a trained engine starts only when
\* retrain_interval_hours have passed since it: with requests handled one
\* at a time, two unforced runs are never less than that apart.
\* ------------------------------------------------------------------------
RunMade == RunStatus = "success"

Unforced == Recommending \/ (Training /\ ~call'.force)

StaleAfter ==
    /\ clock' - last_training_time'[1] >= retrain_interval_hours
    /\ NewInteractions(store', last_training_time') >= min_new_interactions

C27_RunEndsStaleness ==
    [][/\ RunMade
            => /\ last_training_time' = Some(clock)
               /\ ~StaleAfter
               /\ ~ShouldRetrain(last_training_time', clock', store', FALSE)
       /\ (RunMade /\ Unforced /\ HasTrainingTime)
            => clock - last_training_time[1] >= retrain_interval_hours
       /\ ~RunMade => last_training_time' = last_training_time]_vars

\* an unforced train_models found a trained engine Stale, ran, and left it
\* not Stale although the store holds the interactions that made it so
C27_Witness ==
    /\ call.op = "train_models"
    /\ ~call.force
    /\ call.trained_before # Absent
    /\ call.result.status = "success"
    /\ last_training_time = Some(clock)
    /\ clock - call.trained_before[1] >= retrain_interval_hours
    /\ BagCardinality(store) >= min_new_interactions
    /\ ~ShouldRetrain(last_training_time, clock, store, FALSE)

\* ------------------------------------------------------------------------
\* C29: the collaborative train on records of which none survives the
\* filtering returns without raising and leaves is_trained = false, also on
\* a filter trained before: its matrices and index maps stay as they were,
\* and it answers every get_user_recommendations with [].
\* ------------------------------------------------------------------------
C29_NothingSurvivesClearsFlag ==
    [][(TrainingCf /\ call'.interactions # {} /\ call'.df = {})
          => /\ ~call'.raised
             /\ ~cf'.is_trained
             /\ cf'.user_item_matrix = cf.user_item_matrix
             /\ cf'.user_similarity_matrix = cf.user_similarity_matrix
             /\ cf'.user_ids = cf.user_ids /\ cf'.item_ids = cf.item_ids
             /\ \A u \in Users, n \in 1..MaxLimit :
                   get_user_recommendations(cf', u, n) = <<>>]_vars

\* a filter that had a product to recommend to one of its users was trained
\* on records of which none survived: it still holds that user's row
C29_Witness ==
    /\ call.op = "train"
    /\ call.interactions # {}
    /\ call.df = {}
    /\ ~cf.is_trained
    /\ \E u \in Range(cf.user_ids) :
          GetUserRecommendationsFlagIgnored(cf, u, MaxLimit) # <<>>

\* ------------------------------------------------------------------------
\* C30: a training run in which the interaction fetch yields nothing (the
\* store is empty or the fetch failed) does not call the collaborative
\* filter's train, and one in which the product fetch yields nothing does
\* not call the content filter's: the filter left out is as it was, flag
\* and model, while last_training_time is set to the start of the run and
\* the status is 'success'.
\* ------------------------------------------------------------------------
NoInteractionsFetched == store = EmptyBag \/ "aggregate" \in call'.faults

NoProductsFetched == catalog = <<>> \/ "products" \in call'.faults

C30_EmptyFetchSkipsFilter ==
    [][(Training /\ call'.result.status # "skipped")
          => /\ call'.result.status = "success"
             /\ last_training_time' = Some(clock)
             /\ NoInteractionsFetched => ~call'.cf_called /\ cf' = cf
             /\ NoProductsFetched => ~call'.cb_called /\ cb' = cb
             /\ (NoInteractionsFetched /\ NoProductsFetched)
                   => call'.result.models_trained = <<>>]_vars

\* the interaction fetch of a run failed on a store that holds records: the
\* trained collaborative filter was left as it was, the content filter was
\* trained
C30_Witness ==
    /\ call.op = "train_models"
    /\ "aggregate" \in call.faults
    /\ store # EmptyBag
    /\ ~call.cf_called
    /\ cf.is_trained
    /\ call.cb_called
    /\ call.result.status = "success"
    /\ call.result.models_trained = <<"content_based_filtering">>
    /\ last_training_time = Some(clock)

\* ------------------------------------------------------------------------
\* C28: training is not protected against concurrent invocation.  While a
\* run is in flight, a forced retrain and a get_recommendations that finds
\* the engine Stale are neither made to wait nor refused: each can start at
\* once, and when it does it carries out its own training run on the same
\* two filters, the first run still being in flight when it returns.
\* ------------------------------------------------------------------------
SecondRunMade ==
    /\ RunStatus = "success"
    /\ last_training_time' = Some(clock)
    /\ call'.cf_called = (store # EmptyBag)
    /\ call'.cb_called = (catalog # <<>>)
    /\ trainer' = trainer

C28_TrainingNeverHeldBack ==
    [][/\ (InFlight /\ call = Idle) => LetIn
       /\ (InFlight /\ Training) => SecondRunMade
       /\ (InFlight /\ Recommending /\ call'.stale) => SecondRunMade]_vars

\* two requests found the engine Stale on the same last training time: the
\* run of the first is in the middle of the collaborative train, the second
\* has made its whole run meanwhile
C28_Witness ==
    /\ call.op = "get_recommendations"
    /\ call.stale
    /\ call.trained_before # Absent
    /\ call.training.status = "success"
    /\ call.cf_called /\ call.cb_called
    /\ trainer.pc = "cf_similarity"
    /\ call.trained_before[1] < trainer.start_time
    /\ last_training_time = Some(clock)

====
